---- MODULE Spec2Model ----
(***************************************************************************)
(* nitrocli command dispatch (src/nitrocli/src/options.rs).                *)
(*                                                                         *)
(* One behaviour of the model is one process invocation: the process'      *)
(* argument tokens are fixed in the initial state, parse_arguments         *)
(* resolves the command and collects the remaining tokens,                 *)
(* Command::execute routes to the command's handler, the handler runs its  *)
(* sub-parser through the parse_args! macro and, on success, calls the     *)
(* device operation of crate::commands.                                    *)
(***************************************************************************)
EXTENDS Integers, Sequences, FiniteSets, TLC

VARIABLES
  argv,         \* the process' argument tokens, program name excluded
  pc,           \* position of the invocation in the per-invocation state machine
  command,      \* parse_arguments: `command`
  args,         \* parse_arguments: `args`
  cmdToken,     \* the token handed to Command::from_str, <<>> if none was
  resolved,     \* what Command::from_str returned for it, <<"Unset">> before
  handlers,     \* the handler functions entered so far, in order
  subArgs,      \* the argument list the sub-parser was given, <<>> before
  outcome,      \* what the sub-parser returned, <<"Unset">> before
  deviceCalls,  \* the crate::commands operations invoked so far, in order
  deviceResult, \* what the device operation returned, <<"Unset">> before
  result,       \* what Command::execute returned, <<"Unset">> before
  exitCode      \* the code parse_args_or_exit left the process with, -1 if it did not

vars == <<argv, pc, command, args, cmdToken, resolved, handlers, subArgs,
          outcome, deviceCalls, deviceResult, result, exitCode>>

----------------------------------------------------------------------------
\* Bounds and input domains

\* Longest argument token sequence explored.
MaxArgs == 3

\* The four command names, and tokens that are none of them: a case variant,
\* a proper prefix, the empty string, a plain word and a token spelled like
\* the synthesized invocation name.
CommandNames == {"clear", "close", "open", "status"}
OtherWords == {"Status", "stat", "", "extra", "nitrocli status"}

\* Tokens argparse takes for options (leading dash); "-h" and "--help" are
\* the built-in help of every ArgumentParser.
HelpFlags == {"-h", "--help"}
OptionTokens == HelpFlags \cup {"--bogus"}

Tokens == CommandNames \cup OtherWords \cup OptionTokens

RECURSIVE SeqsUpTo(_, _)
SeqsUpTo(S, n) ==
  IF n = 0 THEN {<<>>}
  ELSE LET shorter == SeqsUpTo(S, n - 1)
       IN shorter \cup {Append(s, t) : s \in {q \in shorter : Len(q) = n - 1}, t \in S}

----------------------------------------------------------------------------
\* Values

Unset == <<"Unset">>
Ok(v) == <<"Ok", v>>
Err(e) == <<"Err", e>>
OkUnit == <<"Ok">>

Commands == {"Clear", "Close", "Open", "Status"}

\* What a crate::commands operation may return: success or a domain failure.
DeviceResults == {OkUnit, Err("CommandError"), Err("IoError")}

----------------------------------------------------------------------------
\* Command registry

\* impl fmt::Display for Command, with two variants sharing a name.
DisplayShared(c) ==
  CASE c = "Clear" -> "clear"
    [] c = "Close" -> "clear"
    [] c = "Open" -> "open"
    [] c = "Status" -> "status"

\* impl fmt::Display for Command
Display(c) ==
  CASE c = "Clear" -> "clear"
    [] c = "Close" -> "close"
    [] c = "Open" -> "open"
    [] c = "Status" -> "status"

\* Command::from_str that also accepts a capitalised name and an abbreviation.
from_str_lenient(s) ==
  CASE s = "clear" -> Ok("Clear")
    [] s = "close" -> Ok("Close")
    [] s = "open" -> Ok("Open")
    [] s \in {"status", "Status", "stat"} -> Ok("Status")
    [] OTHER -> Err(<<>>)

\* Command::from_str whose last arm falls back to a command.
from_str_default(s) ==
  CASE s = "clear" -> Ok("Clear")
    [] s = "close" -> Ok("Close")
    [] s = "open" -> Ok("Open")
    [] OTHER -> Ok("Status")

\* impl FromStr for Command
from_str(s) ==
  CASE s = "clear" -> Ok("Clear")
    [] s = "close" -> Ok("Close")
    [] s = "open" -> Ok("Open")
    [] s = "status" -> Ok("Status")
    [] OTHER -> Err(<<>>)

\* Command::execute with the Close arm routed to open.
execute_misrouted(c) ==
  CASE c = "Clear" -> "clear"
    [] c = "Close" -> "open"
    [] c = "Open" -> "open"
    [] c = "Status" -> "status"

\* Command::execute: the handler function each variant is matched to.
execute(c) ==
  CASE c = "Clear" -> "clear"
    [] c = "Close" -> "close"
    [] c = "Open" -> "open"
    [] c = "Status" -> "status"

----------------------------------------------------------------------------
\* Sub-parsing

\* The sub-parser of a handler: an argparse::ArgumentParser with a
\* description and no option but the built-in help, run on the handler's
\* argument list. Token 1 is the program name; options are handled as they
\* are met (help ends the parse with code 0, an unknown option with code 2),
\* positional tokens are kept for the end, where no argument takes them.
RECURSIVE ParserScan(_, _, _)
ParserScan(a, i, positional) ==
  IF i > Len(a) THEN (IF positional THEN Err(2) ELSE OkUnit)
  ELSE IF a[i] \in HelpFlags THEN Err(0)
  ELSE IF a[i] \in OptionTokens THEN Err(2)
  ELSE ParserScan(a, i + 1, TRUE)

parser_parse(a) == ParserScan(a, 2, FALSE)

Continue == <<"Continue">>
Return(r) == <<"Return", r>>

\* parse_args! that treats every parser error as help shown.
parse_args_swallow(res) ==
  IF res[1] = "Err"
  THEN Return(OkUnit)
  ELSE Continue

\* parse_args! that does not return on help shown.
parse_args_help_falls_through(res) ==
  IF res[1] = "Err"
  THEN (IF res[2] = 0 THEN Continue ELSE Return(Err("ArgparseError")))
  ELSE Continue

\* parse_args! replaced by a call whose result is dropped.
parse_args_ignored(res) == Continue

\* parse_args!: what the macro does with the sub-parser's result.
parse_args(res) ==
  IF res[1] = "Err"
  THEN (IF res[2] = 0 THEN Return(OkUnit) ELSE Return(Err("ArgparseError")))
  ELSE Continue

----------------------------------------------------------------------------
\* Top-level parsing

Exit(code) == [kind |-> "exit", code |-> code]
Stored(c, rest, tok) == [kind |-> "stored", command |-> c, args |-> rest, token |-> tok]

\* A command argument that is not required: the default is kept.
missing_command_optional(dflt) == [kind |-> "default", command |-> dflt, args |-> <<>>]

\* refer(&mut command).required(): no command token was supplied.
missing_command(dflt) == Exit(2)

\* argparse::Store on `command`: the token goes through Command::from_str; a
\* token it rejects is a parse error.
StoreCommand(tokens, i) ==
  LET r == from_str(tokens[i])
  IN IF r[1] = "Ok"
     THEN Stored(r[2], SubSeq(tokens, i + 1, Len(tokens)), tokens[i])
     ELSE [kind |-> "rejected", code |-> 2, token |-> tokens[i]]

\* parser.parse_args_or_exit() with stop_on_first_argument(true): only the
\* tokens before the first positional one are interpreted as options, and
\* the parser has none but the built-in help, so an option there ends the
\* process (help with code 0, an unknown option with code 2). The first
\* positional token is the command; every token after it goes to `args` as
\* it is.
parse_args_or_exit(tokens, dflt) ==
  IF tokens = <<>> THEN missing_command(dflt)
  ELSE IF tokens[1] \in HelpFlags THEN Exit(0)
  ELSE IF tokens[1] \in OptionTokens THEN Exit(2)
  ELSE StoreCommand(tokens, 1)

\* args.insert: the name is pushed to the end.
insert_name_last(c, a) == Append(a, "nitrocli " \o Display(c))

\* args.insert: the name is put in twice.
insert_name_twice(c, a) == <<"nitrocli " \o Display(c), "nitrocli " \o Display(c)>> \o a

\* args.insert(0, format!("nitrocli {}", command))
insert_name(c, a) == <<"nitrocli " \o Display(c)>> \o a

----------------------------------------------------------------------------
\* The invocation

Init ==
  /\ argv \in SeqsUpTo(Tokens, MaxArgs)
  /\ pc = "Start"
  /\ command = "Unset"
  /\ args = <<>>
  /\ cmdToken = <<>>
  /\ resolved = Unset
  /\ handlers = <<>>
  /\ subArgs = <<>>
  /\ outcome = Unset
  /\ deviceCalls = <<>>
  /\ deviceResult = Unset
  /\ result = Unset
  /\ exitCode = -1

\* parse_arguments, up to the call of the parser: the locals and the parser.
ParseArgumentsBegin ==
  /\ pc = "Start"
  /\ pc' = "ParsingTopLevel"
  /\ command' = "Status"
  /\ args' = <<>>
  /\ UNCHANGED <<argv, cmdToken, resolved, handlers, subArgs, outcome,
                 deviceCalls, deviceResult, result, exitCode>>

\* parser.parse_args_or_exit() ends the process.
ParseArgsExit ==
  /\ pc = "ParsingTopLevel"
  /\ LET r == parse_args_or_exit(argv, command)
     IN /\ r.kind \in {"exit", "rejected"}
        /\ exitCode' = r.code
        /\ cmdToken' = IF r.kind = "rejected" THEN <<r.token>> ELSE <<>>
        /\ resolved' = IF r.kind = "rejected" THEN from_str(r.token) ELSE Unset
  /\ pc' = "Aborted"
  /\ UNCHANGED <<argv, command, args, handlers, subArgs, outcome,
                 deviceCalls, deviceResult, result>>

\* parser.parse_args_or_exit() returns, then the name is inserted and
\* (command, args) returned.
ParseArgumentsReturn ==
  /\ pc = "ParsingTopLevel"
  /\ LET r == parse_args_or_exit(argv, command)
     IN /\ r.kind \in {"stored", "default"}
        /\ command' = r.command
        /\ args' = insert_name(r.command, r.args)
        /\ cmdToken' = IF r.kind = "stored" THEN <<r.token>> ELSE <<>>
        /\ resolved' = IF r.kind = "stored" THEN from_str(r.token) ELSE Unset
  /\ pc' = "CommandResolved"
  /\ UNCHANGED <<argv, handlers, subArgs, outcome, deviceCalls, deviceResult,
                 result, exitCode>>

\* Command::execute: the match on the variant enters one handler, which
\* takes the argument list by value.
Execute ==
  /\ pc = "CommandResolved"
  /\ handlers' = Append(handlers, execute(command))
  /\ pc' = "ParsingSubcommand"
  /\ UNCHANGED <<argv, command, args, cmdToken, resolved, subArgs, outcome,
                 deviceCalls, deviceResult, result, exitCode>>

\* The body the four handlers share: the sub-parser runs on the arguments,
\* parse_args! returns early or lets the handler go on, and the handler
\* then calls its device operation `op`.
Handler(op) ==
  /\ subArgs' = args
  /\ outcome' = parser_parse(args)
  /\ LET m == parse_args(parser_parse(args))
     IN IF m = Continue
        THEN /\ deviceCalls' = Append(deviceCalls, op)
             /\ pc' = "HandlerInvoked"
             /\ UNCHANGED result
        ELSE /\ result' = m[2]
             /\ pc' = IF m[2] = OkUnit THEN "HelpShown" ELSE "Done"
             /\ UNCHANGED deviceCalls
  /\ UNCHANGED <<argv, command, args, cmdToken, resolved, handlers,
                 deviceResult, exitCode>>

\* fn status
status ==
  /\ pc = "ParsingSubcommand"
  /\ handlers[Len(handlers)] = "status"
  /\ Handler("commands::status")

\* fn open
open ==
  /\ pc = "ParsingSubcommand"
  /\ handlers[Len(handlers)] = "open"
  /\ Handler("commands::open")

\* fn close
close ==
  /\ pc = "ParsingSubcommand"
  /\ handlers[Len(handlers)] = "close"
  /\ Handler("commands::close")

\* fn clear
clear ==
  /\ pc = "ParsingSubcommand"
  /\ handlers[Len(handlers)] = "clear"
  /\ Handler("commands::clear")

\* The device operation returns; the handler and execute return its result.
DeviceReturn ==
  /\ pc = "HandlerInvoked"
  /\ \E r \in DeviceResults :
       /\ deviceResult' = r
       /\ result' = r
  /\ pc' = "Done"
  /\ UNCHANGED <<argv, command, args, cmdToken, resolved, handlers, subArgs,
                 outcome, deviceCalls, exitCode>>

\* After help was shown, execute has returned and the invocation is over.
HelpDone ==
  /\ pc = "HelpShown"
  /\ pc' = "Done"
  /\ UNCHANGED <<argv, command, args, cmdToken, resolved, handlers, subArgs,
                 outcome, deviceCalls, deviceResult, result, exitCode>>

Next ==
  \/ ParseArgumentsBegin
  \/ ParseArgsExit
  \/ ParseArgumentsReturn
  \/ Execute
  \/ status
  \/ open
  \/ close
  \/ clear
  \/ DeviceReturn
  \/ HelpDone

Spec == Init /\ [][Next]_vars

\* Each stage runs to completion and the blocking device call returns.
FairSpec == Spec /\ WF_vars(Next)

----------------------------------------------------------------------------
\* Properties

\* parse_arguments has returned to its caller.
Returned == pc \notin {"Start", "ParsingTopLevel", "Aborted"}

\* The registry as the documentation gives it: name and variant.
NameVariant == {<<"clear", "Clear">>, <<"close", "Close">>,
                <<"open", "Open">>, <<"status", "Status">>}

\* The device operation that belongs to each variant.
VariantOperation == {<<"Clear", "commands::clear">>, <<"Close", "commands::close">>,
                     <<"Open", "commands::open">>, <<"Status", "commands::status">>}

\* How often token t occurs in the list a.
Occurrences(a, t) == Cardinality({i \in 1..Len(a) : a[i] = t})

\* C1: when the first token is a command name c, parse_arguments returns the
\* Command for c and the list whose first element is "nitrocli <c>" and whose
\* other elements are the tokens after c, all of them, as they were, in order.
C1_CommandAndTrailingTokens ==
  (argv # <<>> /\ argv[1] \in CommandNames /\ pc \notin {"Start", "ParsingTopLevel"})
    => /\ Returned
       /\ <<argv[1], command>> \in NameVariant
       /\ args = <<"nitrocli " \o argv[1]>> \o Tail(argv)

C1_Witness ==
  /\ pc = "CommandResolved"
  /\ argv = <<"open", "--bogus", "-h">>
  /\ args = <<"nitrocli open", "--bogus", "-h">>

\* C2: when the sub-parser of a command reports a failure other than help
\* shown, the result is Error::ArgparseError and no device operation is
\* invoked.
C2_ParseFailureIsArgparseError ==
  (outcome[1] = "Err" /\ outcome[2] # 0)
    => /\ result = Err("ArgparseError")
       /\ deviceCalls = <<>>
       /\ pc = "Done"

C2_Witness ==
  /\ argv = <<"open", "--bogus">>
  /\ outcome = Err(2)
  /\ result = Err("ArgparseError")

\* C3: when the sub-parser of a command reports help shown (error code 0),
\* the result is success and no device operation is invoked.
C3_HelpShownIsSuccess ==
  (outcome = Err(0))
    => /\ result = OkUnit
       /\ deviceCalls = <<>>
       /\ pc \in {"HelpShown", "Done"}

C3_Witness ==
  /\ argv = <<"clear", "-h">>
  /\ outcome = Err(0)
  /\ pc = "Done"

\* C4: when the sub-parser of command c reports success, exactly one device
\* operation is invoked, the one of c, and execute returns what it returned.
C4_OneMatchingDeviceOperation ==
  (outcome = OkUnit)
    => /\ Len(deviceCalls) = 1
       /\ <<command, deviceCalls[1]>> \in VariantOperation
       /\ pc \in {"HandlerInvoked", "Done"}
       /\ (pc = "Done" => deviceResult \in DeviceResults /\ result = deviceResult)

C4_Witness ==
  /\ argv = <<"close">>
  /\ pc = "Done"
  /\ deviceCalls = <<"commands::close">>
  /\ result = Err("IoError")

\* C5: each of the four names parses to its variant and that variant
\* displays as the name again; no two variants display as the same name.
C5_NamesRoundTrip ==
  /\ \A n \in CommandNames :
       (cmdToken = <<n>>)
         => /\ resolved[1] = "Ok"
            /\ <<n, resolved[2]>> \in NameVariant
            /\ Display(resolved[2]) = n
  /\ \A c \in Commands : \A d \in Commands : Display(c) = Display(d) => c = d

C5_Witness ==
  /\ cmdToken = <<"close">>
  /\ resolved = Ok("Close")
  /\ args[1] = "nitrocli close"

\* C6: a string that is not exactly one of the four names parses to
\* not-recognized, never to a Command.
C6_OtherStringsNotRecognized ==
  /\ (cmdToken # <<>> /\ cmdToken[1] \notin CommandNames) => resolved = Err(<<>>)
  /\ \A x \in Tokens \ CommandNames : from_str(x)[1] = "Err"

C6_Witness ==
  /\ cmdToken = <<"Status">>
  /\ resolved = Err(<<>>)

\* C7: when the command token is missing or resolves to no Command, the
\* invocation ends Aborted: parse_arguments does not return, no handler is
\* entered and no device operation invoked.
C7_NoCommandAborts ==
  (argv = <<>> \/ argv[1] \notin CommandNames)
    => /\ pc \in {"Start", "ParsingTopLevel", "Aborted"}
       /\ (pc = "Aborted" => exitCode # -1)
       /\ handlers = <<>>
       /\ deviceCalls = <<>>
       /\ result = Unset

C7_Witness ==
  /\ pc = "Aborted"
  /\ argv = <<"stat", "open">>
  /\ resolved = Err(<<>>)

\* The steps of the per-invocation state machine.
Edges == {<<"Start", "ParsingTopLevel">>,
          <<"ParsingTopLevel", "Aborted">>,
          <<"ParsingTopLevel", "CommandResolved">>,
          <<"CommandResolved", "ParsingSubcommand">>,
          <<"ParsingSubcommand", "HandlerInvoked">>,
          <<"ParsingSubcommand", "HelpShown">>,
          <<"ParsingSubcommand", "Done">>,
          <<"HandlerInvoked", "Done">>,
          <<"HelpShown", "Done">>}

\* A step moves the invocation along an edge of the state machine.
AlongEdge == <<pc, pc'>> \in Edges

\* C8: every invocation moves along the state machine and reaches Done or
\* Aborted; a handler is entered at most once; a device operation is invoked
\* only after the command was resolved and its sub-parse reported success.
C8_StateMachineTerminates ==
  /\ <>(pc \in {"Done", "Aborted"})
  /\ [][AlongEdge]_vars
  /\ [](Len(handlers) <= 1)
  /\ [](deviceCalls # <<>>
          => /\ resolved = Ok(command)
             /\ Len(handlers) = 1
             /\ outcome = OkUnit
             /\ Len(deviceCalls) = 1)

C8_Witness ==
  /\ pc = "Done"
  /\ deviceCalls = <<"commands::status">>
  /\ handlers = <<"status">>

\* C9 as stated: the list the sub-parser receives contains the token
\* "nitrocli <command>" exactly once, at index 0.
C9_NameTokenOccursOnce ==
  (subArgs # <<>>)
    => /\ subArgs[1] = "nitrocli " \o Display(command)
       /\ Occurrences(subArgs, "nitrocli " \o Display(command)) = 1

\* C9 amended: the list the sub-parser receives is the token
\* "nitrocli <command>" followed by the tokens after the command, as they
\* were and in order: the name is put in once, at index 0, and not again.
C9_NamePrependedOnce ==
  (pc \notin {"Start", "ParsingTopLevel", "Aborted", "CommandResolved", "ParsingSubcommand"})
    => /\ subArgs # <<>>
       /\ subArgs[1] = "nitrocli " \o cmdToken[1]
       /\ Len(subArgs) = Len(argv)
       /\ \A i \in 2..Len(subArgs) : subArgs[i] = argv[i]

C9_Witness ==
  /\ argv = <<"status", "extra", "-h">>
  /\ subArgs = <<"nitrocli status", "extra", "-h">>

\* C10: the command parse_arguments returns is the one resolved from the
\* command token supplied, so Status is returned, and the status operation
\* invoked, only for the token "status"; without a command token nothing is
\* returned.
C10_DefaultNeverReturned ==
  /\ Returned => (cmdToken # <<>> /\ cmdToken[1] = argv[1] /\ resolved = Ok(command))
  /\ (Returned /\ command = "Status") => cmdToken = <<"status">>
  /\ (\E i \in 1..Len(deviceCalls) : deviceCalls[i] = "commands::status")
       => cmdToken = <<"status">>
  /\ (argv = <<>>) => ~Returned

C10_Witness ==
  /\ pc = "Done"
  /\ command = "Status"
  /\ argv = <<"status">>
  /\ deviceCalls = <<"commands::status">>

====
